---- MODULE Spec2Model ----
(***************************************************************************)
(* Model of rendering.py: Color, Coordinate, Line and Rect, and the draw   *)
(* commands they hand to the native window library (draw_pixel through     *)
(* Window.draw, fill_rect directly).                                       *)
(*                                                                         *)
(* One behaviour follows one caller: it constructs one object (a Color, a  *)
(* Line or a Rect) and then calls display() / change_fill() on it any      *)
(* number of times.  The while loop of Line.display is one step per pass.  *)
(* All coordinates and sizes are integers; the slope, a Python float, is   *)
(* kept as the pair num, den it is the quotient of, and LineY follows the  *)
(* double arithmetic of the code on it.                                    *)
(***************************************************************************)
EXTENDS Integers, Sequences, FiniteSets, TLC

VARIABLES
    args,      \* the arguments of the constructor call the caller made
    obj,       \* the object the caller holds (NoObj when construction failed)
    err,       \* what the last call raised: "none" or "ValueError"
    ctor,      \* how far the constructor got (see NoProgress)
    pc,        \* "start", "failed", "idle", "loop", "draw", "rect"
    cur,       \* the Line whose display() is running or ran last
    edge,      \* 0, or the number of the Rect edge being displayed (5: done)
    x, y,      \* locals of Line.display
    error,     \* local of Line.display
    iter,      \* passes of the while loop completed in this display()
    coords,    \* local list of Line.display, as <<x, y>> pairs
    cmds,      \* the calls the running / last display() made on the library
    flips      \* number of change_fill() calls so far

vars == <<args, obj, err, ctor, pc, cur, edge, x, y, error, iter, coords,
          cmds, flips>>

(* ------------------------------ bounds --------------------------------- *)

\* endpoints of a Line are drawn from 0..MaxCoord on each axis
MaxCoord == 4
\* widths and borderwidths are drawn from -1..MaxWidth
MaxWidth == 3
\* a Rect's top-left corner is drawn from 0..MaxOrigin on each axis
MaxOrigin == 1
\* a Rect's width and height are drawn from -1..MaxSide
MaxSide == 4
\* passes of the while loop of Line.display that are followed
MaxIter == 12
\* calls of change_fill that are followed
MaxFlips == 3

(* --------------------------- small helpers ----------------------------- *)

Abs(n) == IF n < 0 THEN 0 - n ELSE n

NoObj == [kind |-> "none"]

\* how far a constructor got: attribute assignments reached, Lines built
NoProgress == [attrs |-> FALSE, lines |-> 0]

(* ------------------------------ Coordinate ----------------------------- *)

\* Coordinate.__init__ raises ValueError when x < 0 or y < 0
CoordinateRaises(cx, cy) == cx < 0 \/ cy < 0

Coordinate(cx, cy) == [x |-> cx, y |-> cy]

(* --------------------------------- Line -------------------------------- *)

\* the width check written with < in place of <=
LineWidthRaises_Strict(width) == width < 0

\* the width check of Line.__init__; width is an integer here, so the
\* isinstance half of the test is false
LineWidthRaises(width) == width <= 0

\* self.slope: (end.y - start.y) / (end.x - start.x), None on ZeroDivisionError
Slope(start, end) ==
    IF end.x - start.x = 0
    THEN [def |-> FALSE, num |-> 0, den |-> 1]
    ELSE [def |-> TRUE, num |-> end.y - start.y, den |-> end.x - start.x]

\* Line.__init__ : the result of the constructor call
LineInit(start, end, color, width) ==
    IF LineWidthRaises(width)
    THEN [err |-> "ValueError", obj |-> NoObj, progress |-> NoProgress]
    ELSE [err |-> "none",
          obj |-> [kind |-> "Line", start |-> start, end |-> end,
                   color |-> color, width |-> width,
                   radius |-> width \div 2,
                   slope |-> Slope(start, end)],
          progress |-> [attrs |-> TRUE, lines |-> 0]]

\* the dispatch test with the comparison against 0 left out
UsesStepper_NotNoneOnly(l) == l.slope.def

\* self.slope != 0 and self.slope is not None
UsesStepper(l) == l.slope.def /\ l.slope.num # 0

\* self.slope > 1
SlopeAboveOne(l) ==
    IF l.slope.den > 0 THEN l.slope.num > l.slope.den
                       ELSE l.slope.num < l.slope.den

\* nearest integer to the fraction p/q, q > 0, ties to even: Python's round()
\* and the IEEE 754 rounding of a result to the representable values
RoundHalfEven(p, q) ==
    LET f == p \div q
        r == p - f * q
    IN  IF 2 * r < q THEN f
        ELSE IF 2 * r > q THEN f + 1
        ELSE IF f % 2 = 0 THEN f ELSE f + 1

Sign(n) == IF n > 0 THEN 1 ELSE IF n < 0 THEN 0 - 1 ELSE 0

RECURSIVE PowMod2(_, _)
\* 2^e modulo q
PowMod2(e, q) == IF e = 0 THEN 1 % q ELSE (2 * PowMod2(e - 1, q)) % q

RECURSIVE Log2Up(_, _)
Log2Up(p, q) == IF 2 * q <= p THEN 1 + Log2Up(p, 2 * q) ELSE 0

RECURSIVE Log2Down(_, _)
Log2Down(p, q) == IF p < q THEN Log2Down(2 * p, q) - 1 ELSE 0

\* the binary exponent of the positive fraction p/q: the i with
\* 2^i <= p/q < 2^(i+1)
Log2Floor(p, q) == IF p >= q THEN Log2Up(p, q) ELSE Log2Down(p, q)

\* a double result rounded to the 53-bit values around it.  o is the distance
\* of the exact result from a value whose significand is even, g2 twice the
\* spacing of the doubles there, both in units of the slope's last bit; with
\* g2 = 1 every o is representable
GridRound(o, g2) ==
    IF g2 < 2 THEN o ELSE (g2 \div 2) * RoundHalfEven(o, g2 \div 2)

\* The three double operations of line 229 and line 253 when the exact value
\* num * k / den + sy is a tie n + 1/2: the distance of the double the code
\* hands to round() from n + 1/2, in units of the slope's last bit.
\*   slope = fl(num / den): a 53-bit significand M with binary exponent i;
\*     M * |den| - |num| * 2^(52 - i) = d, found from 2^(52 - i) mod |den|
\*   fl(slope * k): exactly |num * k / den| + (d * |k| / |den|) last bits,
\*     rounded to the doubles around |num * k / den|
\*   fl(... + sy): rounded to the doubles around n + 1/2
\* Around a power of two the doubles below it are spaced half as far apart.
TieOffset(num, den, k, sy) ==
    LET p == Abs(num)
        q == Abs(den)
        kk == Abs(k)
        s == Sign(num) * Sign(den) * Sign(k)
        i == Log2Floor(p, q)
        r == ((p % q) * PowMod2(52 - i, q)) % q
        d == IF 2 * r < q THEN 0 - r ELSE q - r
        delta == (d * kk) \div q
        t2 == (2 * p * kk) \div q
        j == Log2Floor(t2, 2)
        g2 == IF t2 = 2 ^ (j + 1) /\ delta < 0
              THEN 2 ^ (j - i) ELSE 2 * 2 ^ (j - i)
        off == s * GridRound(delta, g2)
        vv == s * t2 + 2 * sy
        jv == Log2Floor(vv, 2)
    IN  IF jv - i < 0 THEN off
        ELSE GridRound(off, IF vv = 2 ^ (jv + 1) /\ off < 0
                            THEN 2 ^ (jv - i) ELSE 2 * 2 ^ (jv - i))

\* round(self.slope * (x - self.start.x) + self.start.y), slope the double
\* fl(num / den).  The exact value is a fraction over den, so unless it is a
\* tie it is further from every tie than the error of the three double
\* operations and round() gives the integer nearest to the exact value; on a
\* tie the sign of the error of the double decides, and round() breaks the
\* tie to even only when the double is exactly n + 1/2.
LineY(l, px) ==
    LET k == px - l.start.x
        n0 == l.slope.num * k + l.start.y * l.slope.den
        n == IF l.slope.den > 0 THEN n0 ELSE 0 - n0
        d == Abs(l.slope.den)
        f == n \div d
    IN  IF 2 * (n - f * d) # d THEN RoundHalfEven(n, d)
        ELSE LET o == TieOffset(l.slope.num, l.slope.den, k, l.start.y)
             IN  IF o < 0 THEN f
                 ELSE IF o > 0 THEN f + 1
                 ELSE IF f % 2 = 0 THEN f ELSE f + 1

Dx(l) == Abs(l.start.x - l.end.x)
Dy(l) == Abs(l.start.y - l.end.y)
StepX(l) == IF l.start.x < l.end.x THEN 1 ELSE 0 - 1
StepY(l) == IF l.start.y < l.end.y THEN 1 ELSE 0 - 1
\* two_error = 2 * error, computed once before the loop
TwoError(l) == 2 * (Dx(l) - Dy(l))

\* the position appended for one offset of the for loop
BandPoint(l, px, py, offset) ==
    IF SlopeAboveOne(l) THEN <<px + offset, py>> ELSE <<px, py + offset>>

\* the positions of one pass of the for loop, offset = -radius .. radius
Band(l, px, py) ==
    [k \in 1..(2 * l.radius + 1) |-> BandPoint(l, px, py, k - l.radius - 1)]

\* some Coordinate(...) of the pass raises
BandRaises(l, px, py) ==
    \E k \in 1..(2 * l.radius + 1) :
        CoordinateRaises(Band(l, px, py)[k][1], Band(l, px, py)[k][2])

\* Window.draw(coord, color): one draw_pixel call
SetPixel(p, color) == [op |-> "setPixel", x |-> p[1], y |-> p[2],
                       w |-> 1, h |-> 1, color |-> color]

\* one window_lib.fill_rect call
FillRect(fx, fy, fw, fh, color) ==
    [op |-> "fillRect", x |-> fx, y |-> fy, w |-> fw, h |-> fh,
     color |-> color]

\* the else branch of Line.display: vertical, then horizontal
FastPath(l) ==
    IF ~l.slope.def
    THEN FillRect(l.start.x, l.start.y, l.width, l.end.y - l.start.y, l.color)
    ELSE FillRect(l.start.x, l.start.y, l.end.x - l.start.x, l.width, l.color)

(* ------------------------------- state --------------------------------- *)

Init ==
    /\ args = NoObj
    /\ obj = NoObj
    /\ err = "none"
    /\ ctor = NoProgress
    /\ pc = "start"
    /\ cur = NoObj
    /\ edge = 0
    /\ x = 0
    /\ y = 0
    /\ error = 0
    /\ iter = 0
    /\ coords = <<>>
    /\ cmds = <<>>
    /\ flips = 0

Coords == 0..MaxCoord
Widths == (0 - 1)..MaxWidth

\* Line(master, Coordinate(sx, sy), Coordinate(ex, ey), width = w)
NewLine ==
    /\ pc = "start"
    /\ \E sx \in Coords, sy \in Coords, ex \in Coords, ey \in Coords,
          w \in Widths :
          LET res == LineInit(Coordinate(sx, sy), Coordinate(ex, ey),
                              "line", w)
          IN  /\ args' = [kind |-> "Line", start |-> <<sx, sy>>,
                            end |-> <<ex, ey>>, width |-> w]
              /\ obj' = res.obj
              /\ err' = res.err
              /\ ctor' = res.progress
              /\ pc' = IF res.err = "none" THEN "idle" ELSE "failed"
    /\ UNCHANGED <<cur, edge, x, y, error, iter, coords, cmds, flips>>

\* where control goes when a Line.display call returns
AfterLine(e) == IF e = 0 THEN "idle" ELSE "rect"
NextEdge(e) == IF e = 0 THEN 0 ELSE e + 1

\* Line.display of line l up to the while loop; out: the calls made so far,
\* e: 0 when the caller displays its Line, else the number of the Rect edge
EnterLineDisplay(l, out, e) ==
    IF UsesStepper(l)
    THEN /\ pc' = "loop"
         /\ cur' = l
         /\ x' = l.start.x
         /\ y' = l.start.y
         /\ error' = Dx(l) - Dy(l)
         /\ iter' = 0
         /\ coords' = <<>>
         /\ cmds' = out
         /\ edge' = e
    ELSE /\ cmds' = Append(out, FastPath(l))
         /\ pc' = AfterLine(e)
         /\ edge' = NextEdge(e)
         /\ cur' = l
         /\ UNCHANGED <<x, y, error, iter, coords>>

\* the caller invokes display() on its Line
LineDisplay ==
    /\ pc = "idle"
    /\ obj.kind = "Line"
    /\ EnterLineDisplay(obj, <<>>, 0)
    /\ err' = "none"
    /\ UNCHANGED <<args, obj, ctor, flips>>

\* one pass of the while True loop of Line.display
StepperIter ==
    /\ pc = "loop"
    /\ iter < MaxIter
    /\ LET yr == LineY(cur, x)
       IN  IF BandRaises(cur, x, yr)
           THEN \* ValueError leaves display(), and Rect.display with it
                /\ err' = "ValueError"
                /\ pc' = "idle"
                /\ edge' = 0
                /\ coords' = <<>>
                /\ UNCHANGED <<x, y, error, iter>>
           ELSE /\ coords' = coords \o Band(cur, x, yr)
                /\ iter' = iter + 1
                /\ UNCHANGED <<err, edge>>
                /\ IF x = cur.end.x /\ yr = cur.end.y
                   THEN /\ pc' = "draw"
                        /\ y' = yr
                        /\ UNCHANGED <<x, error>>
                   ELSE /\ pc' = "loop"
                        /\ x' = IF TwoError(cur) > 0 - Dy(cur)
                                THEN x + StepX(cur) ELSE x
                        /\ y' = IF TwoError(cur) < Dx(cur)
                                THEN yr + StepY(cur) ELSE yr
                        /\ error' = (IF TwoError(cur) > 0 - Dy(cur)
                                     THEN error - Dy(cur) ELSE error)
                                    + (IF TwoError(cur) < Dx(cur)
                                       THEN Dx(cur) ELSE 0)
    /\ UNCHANGED <<args, obj, ctor, cur, cmds, flips>>

\* for coord in coords: self.master.draw(coord, self.color)
StepperDraw ==
    /\ pc = "draw"
    /\ cmds' = cmds \o [k \in 1..Len(coords) |-> SetPixel(coords[k], cur.color)]
    /\ pc' = AfterLine(edge)
    /\ edge' = NextEdge(edge)
    /\ UNCHANGED <<args, obj, err, ctor, cur, x, y, error, iter, coords, flips>>

(* --------------------------------- Rect -------------------------------- *)

Fail(progress) == [err |-> "ValueError", obj |-> NoObj, progress |-> progress]

\* the smallest element of a non-empty set of integers
Least(S) == CHOOSE m \in S : \A n \in S : m <= n

\* Rect.__init__ : the three checks (on integers, so their isinstance halves
\* are false), the attributes, the four vertices and the four edges, in the
\* order of the code
RectInit(top_left, width, height, borderwidth, fill) ==
    IF width <= 0 THEN Fail(NoProgress)
    ELSE IF height <= 0 THEN Fail(NoProgress)
    ELSE IF borderwidth <= 0 THEN Fail(NoProgress)
    ELSE
    IF \/ CoordinateRaises(top_left.x + width, top_left.y)
       \/ CoordinateRaises(top_left.x, top_left.y + height)
       \/ CoordinateRaises(top_left.x + width, top_left.y + height)
    THEN Fail([attrs |-> TRUE, lines |-> 0])
    ELSE
    LET top_right == Coordinate(top_left.x + width, top_left.y)
        bottom_left == Coordinate(top_left.x, top_left.y + height)
        bottom_right == Coordinate(top_left.x + width, top_left.y + height)
        edges == << LineInit(top_left, top_right, "border", borderwidth),
                    LineInit(bottom_left, bottom_right, "border", borderwidth),
                    LineInit(top_left, bottom_left, "border", borderwidth),
                    LineInit(top_right, bottom_right, "border", borderwidth) >>
        raising == {i \in 1..4 : edges[i].err # "none"}
    IN  IF raising # {}
        THEN Fail([attrs |-> TRUE, lines |-> Least(raising) - 1])
        ELSE [err |-> "none",
              obj |-> [kind |-> "Rect", width |-> width, height |-> height,
                       border_color |-> "border", borderwidth |-> borderwidth,
                       fill |-> fill, fill_color |-> "fill",
                       top_left |-> top_left, top_right |-> top_right,
                       bottom_left |-> bottom_left,
                       bottom_right |-> bottom_right,
                       top_edge |-> edges[1].obj, bottom_edge |-> edges[2].obj,
                       left_edge |-> edges[3].obj, right_edge |-> edges[4].obj],
              progress |-> [attrs |-> TRUE, lines |-> 4]]

\* the edges in the order Rect.display displays them
EdgeOf(r, i) ==
    IF i = 1 THEN r.top_edge
    ELSE IF i = 2 THEN r.bottom_edge
    ELSE IF i = 3 THEN r.left_edge
    ELSE r.right_edge

\* the corner patch as a single pixel
CornerPatch_OnePixel(r) ==
    [op |-> "fillRect", x |-> r.bottom_right.x, y |-> r.bottom_right.y,
     w |-> 1, h |-> 1, color |-> r.border_color]

\* "fill in bottom right corner"
CornerPatch(r) ==
    FillRect(r.bottom_right.x, r.bottom_right.y, r.borderwidth, r.borderwidth,
             r.border_color)

\* "fill if needed"
InteriorFill(r) ==
    FillRect(r.top_left.x + r.borderwidth, r.top_left.y + r.borderwidth,
             r.width - r.borderwidth, r.height - r.borderwidth, r.fill_color)

\* Rect.display without the test of self.fill
AfterEdges_AlwaysFill(r) == <<CornerPatch(r), InteriorFill(r)>>

\* the calls Rect.display makes after the four edges
AfterEdges(r) ==
    IF r.fill THEN <<CornerPatch(r), InteriorFill(r)>> ELSE <<CornerPatch(r)>>

Origins == 0..MaxOrigin
Sides == (0 - 1)..MaxSide

\* Rect(master, Coordinate(x0, y0), w, h, borderwidth = bw, fill = f)
NewRect ==
    /\ pc = "start"
    /\ \E x0 \in Origins, y0 \in Origins, w \in Sides, h \in Sides,
          bw \in Widths, f \in BOOLEAN :
          LET res == RectInit(Coordinate(x0, y0), w, h, bw, f)
          IN  /\ args' = [kind |-> "Rect", top_left |-> <<x0, y0>>,
                            width |-> w, height |-> h, borderwidth |-> bw,
                            fill |-> f]
              /\ obj' = res.obj
              /\ err' = res.err
              /\ ctor' = res.progress
              /\ pc' = IF res.err = "none" THEN "idle" ELSE "failed"
    /\ UNCHANGED <<cur, edge, x, y, error, iter, coords, cmds, flips>>

\* Rect.change_fill
ChangeFill ==
    /\ pc = "idle"
    /\ obj.kind = "Rect"
    /\ flips < MaxFlips
    /\ obj' = [obj EXCEPT !.fill = ~obj.fill]
    /\ flips' = flips + 1
    /\ UNCHANGED <<args, err, ctor, pc, cur, edge, x, y, error, iter, coords,
                   cmds>>

\* the caller invokes display() on its Rect: self.top_edge.display()
RectDisplay ==
    /\ pc = "idle"
    /\ obj.kind = "Rect"
    /\ EnterLineDisplay(obj.top_edge, <<>>, 1)
    /\ err' = "none"
    /\ UNCHANGED <<args, obj, ctor, flips>>

\* the display() of the bottom, left and right edge
RectEdgeDisplay ==
    /\ pc = "rect"
    /\ edge \in 2..4
    /\ EnterLineDisplay(EdgeOf(obj, edge), cmds, edge)
    /\ UNCHANGED <<args, obj, err, ctor, flips>>

\* the corner patch and the fill, then Rect.display returns
RectFinish ==
    /\ pc = "rect"
    /\ edge = 5
    /\ cmds' = cmds \o AfterEdges(obj)
    /\ pc' = "idle"
    /\ edge' = 0
    /\ UNCHANGED <<args, obj, err, ctor, cur, x, y, error, iter, coords,
                   flips>>

(* -------------------------------- Color -------------------------------- *)

RECURSIVE BitOr(_, _)
\* a | b on non-negative integers
BitOr(a, b) ==
    IF a = 0 THEN b
    ELSE IF b = 0 THEN a
    ELSE (IF a % 2 = 1 \/ b % 2 = 1 THEN 1 ELSE 0)
         + 2 * BitOr(a \div 2, b \div 2)

\* a << n on non-negative integers
ShiftLeft(a, n) == a * 2 ^ n

\* the channels packed in the order r, g, b
GenerateColorref_RedHigh(r, g, b) ==
    BitOr(BitOr(ShiftLeft(r, 16), ShiftLeft(g, 8)), b)

\* Color.generate_colorref; the value is below 2^24, so c_uint32 keeps it
GenerateColorref(r, g, b) ==
    BitOr(BitOr(ShiftLeft(b, 16), ShiftLeft(g, 8)), r)

ChannelRaises(v) == v > 255 \/ v < 0

\* Color.__init__ for the tuple color
ColorInit(color) ==
    IF Len(color) # 4 /\ Len(color) # 3 THEN Fail(NoProgress)
    ELSE IF ChannelRaises(color[1]) \/ ChannelRaises(color[2])
            \/ ChannelRaises(color[3]) THEN Fail(NoProgress)
    ELSE IF Len(color) = 4 /\ ChannelRaises(color[4]) THEN Fail(NoProgress)
    ELSE IF Len(color) = 4
    THEN [err |-> "none",
          obj |-> [kind |-> "Color", r |-> color[1], g |-> color[2],
                   b |-> color[3], a |-> color[4], color |-> color,
                   colorref |-> GenerateColorref(color[1], color[2], color[3])],
          progress |-> [attrs |-> TRUE, lines |-> 0]]
    ELSE [err |-> "none",
          obj |-> [kind |-> "Color", r |-> color[1], g |-> color[2],
                   b |-> color[3], color |-> color,
                   colorref |-> GenerateColorref(color[1], color[2], color[3])],
          progress |-> [attrs |-> TRUE, lines |-> 0]]

\* channel values tried: the ends of the range, both sides of each end, and
\* values that set different bits
Channels == {0 - 1, 0, 1, 2, 15, 16, 127, 128, 170, 254, 255, 256}
Alphas == {0 - 1, 0, 128, 255, 256}

ColorInputs ==
    {<<r, g, b>> : r \in Channels, g \in Channels, b \in Channels}
    \cup {<<r, g, b, a>> : r \in Channels, g \in Channels, b \in Channels,
                            a \in Alphas}
    \cup {<<0, 0>>, <<0, 0, 0, 0, 0>>}

\* Color(c)
NewColor ==
    /\ pc = "start"
    /\ \E c \in ColorInputs :
          LET res == ColorInit(c)
          IN  /\ args' = [kind |-> "Color", color |-> c]
              /\ obj' = res.obj
              /\ err' = res.err
              /\ ctor' = res.progress
              /\ pc' = IF res.err = "none" THEN "idle" ELSE "failed"
    /\ UNCHANGED <<cur, edge, x, y, error, iter, coords, cmds, flips>>

(* ----------------------------- specification --------------------------- *)

Next ==
    \/ NewColor
    \/ NewLine
    \/ NewRect
    \/ LineDisplay
    \/ StepperIter
    \/ StepperDraw
    \/ ChangeFill
    \/ RectDisplay
    \/ RectEdgeDisplay
    \/ RectFinish

Spec == Init /\ [][Next]_vars

(* ------------------------------ properties ----------------------------- *)

\* the segment is vertical or horizontal (or a single point)
AxisAligned(l) == l.start.x = l.end.x \/ l.start.y = l.end.y

\* the caller's Line has been displayed and display() returned normally
LineDisplayed ==
    obj.kind = "Line" /\ pc = "idle" /\ cur = obj /\ err = "none"

\* the caller's Rect has been displayed and display() returned normally
RectDisplayed ==
    obj.kind = "Rect" /\ pc = "idle" /\ cur = obj.right_edge /\ err = "none"

\* C1, as the claim states it: on the stepper path the while loop of
\* display() exits after a number of passes bounded by the segment's dx and
\* dy, so it is never found still looping after dx + dy passes.
C1_StepperTerminates ==
    pc = "loop" => iter <= Dx(cur) + Dy(cur)

\* C2, as the claim states it: display() on a constructed Line propagates no
\* error; a ValueError is only ever the outcome of a constructor call.
C2_DisplayPropagatesNoError ==
    err = "ValueError" => pc = "failed"

\* the fill flag after flips calls of change_fill
FlagAfterFlips == IF flips % 2 = 0 THEN args.fill ELSE ~args.fill

\* C3: whatever change_fill() and display() calls were made on a Rect, its
\* fill flag is the constructor's value flipped once per change_fill(), a
\* display() never runs the stepper and issues no setPixel, and when it
\* returns it has issued exactly five fillRect in the border colour followed
\* by exactly one fillRect in the fill colour if the flag is true, none if not.
C3_RectDisplayCommands ==
    /\ [](obj.kind = "Rect" =>
            /\ obj.fill = FlagAfterFlips
            /\ pc \notin {"loop", "draw"}
            /\ \A k \in 1..Len(cmds) : cmds[k].op = "fillRect")
    /\ [][(obj.kind = "Rect" /\ pc # "idle" /\ pc' = "idle") =>
            /\ err' = "none"
            /\ Len(cmds') = 5 + (IF FlagAfterFlips THEN 1 ELSE 0)
            /\ \A k \in 1..5 : cmds'[k].color = obj.border_color
            /\ FlagAfterFlips => cmds'[6].color = obj.fill_color]_vars

\* a Rect built with fill = False, displayed after one change_fill()
C3_Witness ==
    /\ RectDisplayed
    /\ ~args.fill
    /\ flips = 1
    /\ Len(cmds) = 6

\* C4: a vertical or horizontal Line never runs the stepper loop and its
\* display() issues exactly one fillRect and no setPixel; a Line with a
\* defined non-zero slope issues setPixel only, at least one when display()
\* returns.
C4_Dispatch ==
    obj.kind = "Line" =>
        IF AxisAligned(obj)
        THEN /\ pc \notin {"loop", "draw"}
             /\ iter = 0
             /\ coords = <<>>
             /\ \A k \in 1..Len(cmds) : cmds[k].op = "fillRect"
             /\ LineDisplayed => Len(cmds) = 1
        ELSE /\ \A k \in 1..Len(cmds) : cmds[k].op = "setPixel"
             /\ LineDisplayed => Len(cmds) >= 1
             /\ cur = obj => (pc # "idle" \/ iter >= 1 \/ err = "ValueError")

\* a horizontal Line of width 2 has been displayed
C4_Witness ==
    /\ LineDisplayed
    /\ obj.start.y = obj.end.y
    /\ obj.start.x # obj.end.x
    /\ obj.width = 2
    /\ Len(cmds) = 1

\* the k-th pixel of a width-1 Line according to C5
C5Pixel(l, k) ==
    LET px == l.start.x + (k - 1) * StepX(l)
    IN  <<px, LineY(l, px)>>

\* C5, as the claim states it: a width-1 Line with a defined non-zero slope
\* collects one position per integer x from start.x to end.x, in that order,
\* each at y = round(slope * (x - start.x) + start.y), never more than
\* |end.x - start.x| + 1 of them, and display() emits exactly these.
C5_WidthOnePixels ==
    (obj.kind = "Line" /\ ~AxisAligned(obj) /\ obj.width = 1) =>
        /\ Len(coords) <= Dx(obj) + 1
        /\ \A k \in 1..Len(coords) : coords[k] = C5Pixel(obj, k)
        /\ LineDisplayed =>
             cmds = [k \in 1..(Dx(obj) + 1) |->
                        SetPixel(C5Pixel(obj, k), obj.color)]

\* C6: a Color built from channels in 0..255 is constructed, its packed value
\* has r in bits 0-7, g in bits 8-15, b in bits 16-23 and nothing above, and
\* with an alpha it has the packed value of the Color built without it.
C6_PackedColor ==
    /\ (/\ args.kind = "Color"
        /\ Len(args.color) \in {3, 4}
        /\ \A i \in 1..Len(args.color) : args.color[i] \in 0..255)
       => obj.kind = "Color"
    /\ obj.kind = "Color" =>
        /\ obj.colorref
             = args.color[3] * 65536 + args.color[2] * 256 + args.color[1]
        /\ obj.colorref < 16777216
        /\ Len(args.color) = 4 =>
             obj.colorref = ColorInit(SubSeq(args.color, 1, 3)).obj.colorref

\* a Color with three different channels and an alpha has been built
C6_Witness ==
    /\ obj.kind = "Color"
    /\ args.color = <<15, 170, 254, 128>>
    /\ obj.colorref = 16689679

\* C7: a Line is constructed exactly when its width is positive, a Rect
\* exactly when width, height and borderwidth all are; a failed construction
\* raised ValueError before any attribute was assigned or edge built, leaves
\* no object, and no draw command is issued.
C7_EagerValidation ==
    /\ args.kind = "Line" => ((args.width <= 0) <=> (pc = "failed"))
    /\ args.kind = "Rect" =>
         ((args.width <= 0 \/ args.height <= 0 \/ args.borderwidth <= 0)
            <=> (pc = "failed"))
    /\ (args.kind \in {"Line", "Rect"} /\ pc = "failed") =>
         /\ err = "ValueError"
         /\ obj = NoObj
         /\ ctor = NoProgress
         /\ cmds = <<>>
    /\ (args.kind \in {"Line", "Rect"} /\ pc # "failed") =>
         /\ obj.kind = args.kind
         /\ ctor.attrs

\* a Line with width 0 was refused
C7_Witness ==
    /\ args.kind = "Line"
    /\ args.width = 0
    /\ pc = "failed"

\* the absolute value of the slope exceeds 1
AbsSlopeAboveOne(l) == Abs(l.slope.num) > Abs(l.slope.den)

\* C8, as the claim states it: the setPixel calls of a stepper-path display()
\* come in bands of 2 * radius + 1, each centred on its middle pixel (x, y):
\* (x + k, y) for k in -radius..radius when |slope| > 1, else (x, y + k).
C8_BandAlongAbsSlope ==
    (LineDisplayed /\ ~AxisAligned(obj)) =>
        LET n == 2 * obj.radius + 1
        IN  /\ Len(cmds) % n = 0
            /\ \A i \in 0..((Len(cmds) \div n) - 1) :
               \A k \in (0 - obj.radius)..obj.radius :
                  LET c == cmds[i * n + obj.radius + 1]
                      p == cmds[i * n + obj.radius + 1 + k]
                  IN  IF AbsSlopeAboveOne(obj)
                      THEN p.x = c.x + k /\ p.y = c.y
                      ELSE p.x = c.x /\ p.y = c.y + k

Min(a, b) == IF a < b THEN a ELSE b

\* C9, as the claim states it: the fillRect of an axis-aligned Line starts at
\* the smaller endpoint coordinates, is |end - start| long along the line and
\* width across it.
C9_FastPathBoundingBox ==
    (LineDisplayed /\ AxisAligned(obj)) =>
        cmds = << [op |-> "fillRect",
                   x |-> Min(obj.start.x, obj.end.x),
                   y |-> Min(obj.start.y, obj.end.y),
                   w |-> IF obj.start.x = obj.end.x
                         THEN obj.width ELSE Abs(obj.end.x - obj.start.x),
                   h |-> IF obj.start.x = obj.end.x
                         THEN Abs(obj.end.y - obj.start.y) ELSE obj.width,
                   color |-> obj.color] >>

\* the pixel block [x, x + w) x [y, y + h) of a fillRect
Pixels(c) ==
    {<<px, py>> : px \in c.x..(c.x + c.w - 1), py \in c.y..(c.y + c.h - 1)}

Block(x1, x2, y1, y2) == {<<px, py>> : px \in x1..(x2 - 1), py \in y1..(y2 - 1)}

\* C10: for a Rect with borderwidth < width and borderwidth < height, the
\* five border fills of display() cover exactly
\* [x0, x0+width+borderwidth) x [y0, y0+height+borderwidth) minus the
\* interior [x0+borderwidth, x0+width) x [y0+borderwidth, y0+height), and the
\* interior fill, when issued, covers exactly that interior and no pixel of
\* the border fills.
C10_BorderRing ==
    (/\ RectDisplayed
     /\ obj.borderwidth < obj.width
     /\ obj.borderwidth < obj.height) =>
        LET x0 == args.top_left[1]
            y0 == args.top_left[2]
            bw == args.borderwidth
            interior == Block(x0 + bw, x0 + args.width,
                              y0 + bw, y0 + args.height)
            outer == Block(x0, x0 + args.width + bw,
                           y0, y0 + args.height + bw)
            border == UNION {Pixels(cmds[k]) : k \in 1..5}
        IN  /\ Len(cmds) >= 5
            /\ border = outer \ interior
            /\ Len(cmds) = 6 =>
                 /\ Pixels(cmds[6]) = interior
                 /\ Pixels(cmds[6]) \cap border = {}

\* a filled Rect with a border two pixels wide has been displayed
C10_Witness ==
    /\ RectDisplayed
    /\ obj.borderwidth = 2
    /\ obj.width = 3
    /\ obj.height = 4
    /\ Len(cmds) = 6

====
